---- MODULE Spec2Model ----
(***************************************************************************)
(* The binary cursor of src/net/binary/decode.rs: Cursor<T> (a byte source *)
(* `inner` and a position `cursor`), Cursor::new, Cursor::read,            *)
(* Cursor::decode, the Error enum and the Decode trait.  The trait has no  *)
(* implementer in the source file; the implementers used here follow the   *)
(* composition rule of the specification (section 4.3).                    *)
(***************************************************************************)
EXTENDS Integers, Sequences, FiniteSets, TLC

\* ------------------------------------------------------------------ bounds
MaxLen == 3        \* longest byte source
MaxBuf == 3        \* longest destination buffer handed to a direct read
MaxReads == 3      \* Cursor::read calls made on one cursor

\* The byte values the sources are drawn from.
Byte == {1, 2, 3}

RECURSIVE SeqsOfLen(_)
SeqsOfLen(k) ==
    IF k = 0 THEN {<<>>}
    ELSE {Append(s, b) : s \in SeqsOfLen(k - 1), b \in Byte}

Sources == UNION {SeqsOfLen(k) : k \in 0..MaxLen}

\* a caller's destination buffer of length n: zeroed, which no source byte is
NewBuf(n) == [i \in 1..n |-> 0]

\* a caller's destination buffer of length n that holds earlier contents
UsedBuf(n) == [i \in 1..n |-> 200 + i]

\* the destination buffers of length n a caller hands to a direct read
Bufs(n) == {NewBuf(n), UsedBuf(n)}

\* ------------------------------------------------------------ Cursor::read
Min(a, b) == IF a < b THEN a ELSE b

\* let end = min(self.cursor + buf.len(), inner.len());
\* (both operands are lengths of objects in memory, far below the usize range)
EndNoMin(cur, n, len) == cur + n
End(cur, n, len) == Min(cur + n, len)

\* &inner[self.cursor..end] : the index panics unless cursor <= end <= len
SliceOk(cur, end, len) == cur <= end /\ end <= len
Slice(src, cur, end) == SubSeq(src, cur + 1, end)

\* &mut buf[..slice.len()] : the index panics unless slice.len() <= buf.len()
CopyOk(buf, slice) == Len(slice) <= Len(buf)

\* (&mut buf[..slice.len()]).copy_from_slice(slice)
CopyFromSliceReversed(buf, slice) ==
    [i \in 1..Len(buf) |->
        IF i <= Len(slice) THEN slice[Len(slice) + 1 - i] ELSE buf[i]]
CopyFromSliceZeroTail(buf, slice) ==
    [i \in 1..Len(buf) |-> IF i <= Len(slice) THEN slice[i] ELSE 0]
CopyFromSliceAdd(buf, slice) ==
    [i \in 1..Len(buf) |->
        IF i <= Len(slice) THEN (buf[i] + slice[i]) % 256 ELSE buf[i]]
CopyFromSlice(buf, slice) ==
    [i \in 1..Len(buf) |-> IF i <= Len(slice) THEN slice[i] ELSE buf[i]]

\* the value returned: slice.len()
ReadCountRequested(buf, slice) == Len(buf)
ReadCount(buf, slice) == Len(slice)

\* self.cursor after the call: the body of read holds no assignment to it
CursorAdvanceRequested(cur, n, count) == cur + n
CursorAssignCount(cur, n, count) == count
CursorAdvanceOne(cur, n, count) == cur + 1
CursorAfterRead(cur, n, count) == cur

\* self.inner after a call: let inner = self.inner.as_ref() is a shared
\* borrow, and nothing is written through it.  rs are the reads made so far.
SourceDrained(src, rs) ==
    IF rs = <<>> THEN src ELSE SubSeq(src, rs[Len(rs)].ret + 1, Len(src))
SourceAfterCall(src, rs) == src

\* One call of Cursor::read.  st is the cursor object together with the
\* record of the calls made on it: [cursor, reads, panicked].
Cursor_read(src, st, buf) ==
    LET end == End(st.cursor, Len(buf), Len(src)) IN
    IF ~SliceOk(st.cursor, end, Len(src))
    THEN [st |-> [st EXCEPT !.panicked = TRUE], ret |-> 0, buf |-> buf]
    ELSE LET slice == Slice(src, st.cursor, end) IN
         IF ~CopyOk(buf, slice)
         THEN [st |-> [st EXCEPT !.panicked = TRUE], ret |-> 0, buf |-> buf]
         ELSE LET out == CopyFromSlice(buf, slice)
                  ret == ReadCount(buf, slice)
                  post == CursorAfterRead(st.cursor, Len(buf), Len(slice))
                  rec == [pos |-> st.cursor, len |-> Len(buf), end |-> end,
                          ret |-> ret, pre |-> buf, buf |-> out, post |-> post]
              IN [st |-> [cursor |-> post,
                          reads |-> Append(st.reads, rec),
                          panicked |-> FALSE],
                  ret |-> ret, buf |-> out]

\* ------------------------------------------------------------------- Error
UnexpectedEnd == [kind |-> "UnexpectedEnd", val |-> <<>>]
Deserialize(e) == [kind |-> "Deserialize", val |-> e]
Ok(v) == [kind |-> "Ok", val |-> v]
Aborted == [kind |-> "Aborted", val |-> <<>>]
NoResult == [kind |-> "None", val |-> <<>>]

Error_unexpected_end == UnexpectedEnd
Error_deserialize(e) == Deserialize(e)

\* ------------------------------------------------------ Decode implementers
\* The wire types decoded through the cursor.  A raw type reads its width
\* with Cursor::read and checks the returned length; Tag also rejects an
\* invalid value; a composite decodes its fields, in order, with
\* Cursor::decode on the same cursor.
RawTypes == {"U8", "U16", "U32"}
TagTypes == {"Tag"}
CompositeTypes == {"PairU8U8", "PairU16U16", "Msg", "Rec"}
Types == RawTypes \cup TagTypes \cup CompositeTypes

Width(U) ==
    CASE U = "U8" -> 1
      [] U = "U16" -> 2
      [] U = "U32" -> 4
      [] U = "Tag" -> 1

Fields(U) ==
    CASE U = "PairU8U8" -> <<"U8", "U8">>
      [] U = "PairU16U16" -> <<"U16", "U16">>
      [] U = "Msg" -> <<"Tag", "U16">>
      [] U = "Rec" -> <<"U8", "Tag">>

ValidTags == {1, 2}

RECURSIVE SumWidths(_)
SumWidths(fs) == IF fs = <<>> THEN 0 ELSE Width(Head(fs)) + SumWidths(Tail(fs))

\* the bytes a value of U occupies, and the Cursor::read calls its decode makes
TotalWidth(U) == IF U \in CompositeTypes THEN SumWidths(Fields(U)) ELSE Width(U)
NumReads(U) == IF U \in CompositeTypes THEN Len(Fields(U)) ELSE 1

\* big-endian integer of a byte string, and its inverse at width w
RECURSIVE FromBE(_)
FromBE(bytes) ==
    IF bytes = <<>> THEN 0
    ELSE FromBE(SubSeq(bytes, 1, Len(bytes) - 1)) * 256 + bytes[Len(bytes)]

RECURSIVE ToBE(_, _)
ToBE(v, w) == IF w = 0 THEN <<>> ELSE Append(ToBE(v \div 256, w - 1), v % 256)

RawDecode(U, src, st) ==
    LET r == Cursor_read(src, st, NewBuf(Width(U))) IN
    IF r.st.panicked THEN [st |-> r.st, res |-> Aborted]
    ELSE IF r.ret # Width(U) THEN [st |-> r.st, res |-> Error_unexpected_end]
    ELSE [st |-> r.st, res |-> Ok(<<FromBE(r.buf)>>)]

TagDecode(U, src, st) ==
    LET r == Cursor_read(src, st, NewBuf(Width(U))) IN
    IF r.st.panicked THEN [st |-> r.st, res |-> Aborted]
    ELSE IF r.ret # Width(U) THEN [st |-> r.st, res |-> Error_unexpected_end]
    ELSE IF r.buf[1] \notin ValidTags
         THEN [st |-> r.st, res |-> Error_deserialize(<<r.buf[1]>>)]
    ELSE [st |-> r.st, res |-> Ok(<<r.buf[1]>>)]

RECURSIVE Cursor_decode(_, _, _)
RECURSIVE Decode_decode(_, _, _)
RECURSIVE DecodeFields(_, _, _, _)

\* ---------------------------------------------------------- Cursor::decode
\* U::decode(self)
Cursor_decode_Remap(U, src, st) ==
    LET r == Decode_decode(U, src, st) IN
    IF r.res.kind = "Deserialize" THEN [r EXCEPT !.res = UnexpectedEnd] ELSE r
Cursor_decode(U, src, st) == Decode_decode(U, src, st)

\* the fields of a composite, each through Cursor::decode, the first failure
\* returned as it is (the ? operator)
DecodeFields(fs, src, st, acc) ==
    IF fs = <<>> THEN [st |-> st, res |-> Ok(acc)]
    ELSE LET r == Cursor_decode(Head(fs), src, st) IN
         IF r.res.kind # "Ok" THEN r
         ELSE DecodeFields(Tail(fs), src, r.st, acc \o r.res.val)

Decode_decode(U, src, st) ==
    IF U \in RawTypes THEN RawDecode(U, src, st)
    ELSE IF U \in TagTypes THEN TagDecode(U, src, st)
    ELSE DecodeFields(Fields(U), src, st, <<>>)

\* the paired encoder of a value (one entry per leaf field)
RECURSIVE EncodeFields(_, _)
EncodeFields(fs, v) ==
    IF fs = <<>> THEN <<>>
    ELSE (IF Head(fs) \in TagTypes THEN <<v[1]>> ELSE ToBE(v[1], Width(Head(fs))))
         \o EncodeFields(Tail(fs), Tail(v))

Encode(U, v) == EncodeFields(IF U \in CompositeTypes THEN Fields(U) ELSE <<U>>, v)

\* ------------------------------------------------------------------- state
VARIABLES inner, cursor, reads, last, panicked

vars == <<inner, cursor, reads, last, panicked>>

\* the cursor object and the record of its calls, as the operators take it
St == [cursor |-> cursor, reads |-> reads, panicked |-> panicked]

\* Cursor { inner, cursor: 0 }
Cursor_new_One(src) == [inner |-> src, cursor |-> 1]
Cursor_new(src) == [inner |-> src, cursor |-> 0]

Init ==
    /\ \E src \in Sources :
         /\ inner = Cursor_new(src).inner
         /\ cursor = Cursor_new(src).cursor
    /\ reads = <<>>
    /\ last = [op |-> "new", U |-> "none", first |-> FALSE, pre |-> 0, ret |-> 0,
               res |-> NoResult]
    /\ panicked = FALSE

\* a caller's cursor.read(&mut buf)
Read(buf) ==
    /\ ~panicked
    /\ Len(reads) < MaxReads
    /\ LET r == Cursor_read(inner, St, buf) IN
         /\ cursor' = r.st.cursor
         /\ reads' = r.st.reads
         /\ panicked' = r.st.panicked
         /\ last' = [op |-> "read", U |-> "none", first |-> (reads = <<>>),
                     pre |-> cursor, ret |-> r.ret, res |-> NoResult]
         /\ inner' = SourceAfterCall(inner, r.st.reads)

\* a caller's cursor.decode::<U>()
Decode(U) ==
    /\ ~panicked
    /\ Len(reads) + NumReads(U) <= MaxReads
    /\ LET r == Cursor_decode(U, inner, St) IN
         /\ cursor' = r.st.cursor
         /\ reads' = r.st.reads
         /\ panicked' = r.st.panicked
         /\ last' = [op |-> "decode", U |-> U, first |-> (reads = <<>>),
                     pre |-> cursor, ret |-> 0, res |-> r.res]
         /\ inner' = SourceAfterCall(inner, r.st.reads)

Next ==
    \/ \E n \in 0..MaxBuf : \E buf \in Bufs(n) : Read(buf)
    \/ \E U \in Types : Decode(U)

Spec == Init /\ [][Next]_vars

TypeOK ==
    /\ inner \in Sources
    /\ cursor \in Int
    /\ panicked \in BOOLEAN
    /\ last.op \in {"new", "read", "decode"}

\* ---------------------------------------------------------------- helpers
\* the bytes call i of Cursor::read delivered: the first ret bytes of its buffer
DeliveredBy(i) == SubSeq(reads[i].buf, 1, reads[i].ret)

RECURSIVE DeliveredUpTo(_)
DeliveredUpTo(k) == IF k = 0 THEN <<>> ELSE DeliveredUpTo(k - 1) \o DeliveredBy(k)

Delivered == DeliveredUpTo(Len(reads))

IsPrefix(s, t) == Len(s) <= Len(t) /\ s = SubSeq(t, 1, Len(s))

NonEmptyReads == Cardinality({i \in DOMAIN reads : reads[i].len > 0})

\* the types made of raw fixed-width fields only
FixedWidthTypes ==
    RawTypes \cup {U \in CompositeTypes :
                     \A i \in DOMAIN Fields(U) : Fields(U)[i] \in RawTypes}

\* src is the encoding of some value of U: it has U's width and a valid tag
\* wherever U has a tag field
IsEncoding(U, src) ==
    LET fs == IF U \in CompositeTypes THEN Fields(U) ELSE <<U>> IN
    /\ Len(src) = TotalWidth(U)
    /\ \A i \in DOMAIN fs :
         fs[i] \in TagTypes => src[SumWidths(SubSeq(fs, 1, i - 1)) + 1] \in ValidTags

\* the invalid tag values src carries where U has a tag field
BadTags(U, src) ==
    LET fs == IF U \in CompositeTypes THEN Fields(U) ELSE <<U>> IN
    {src[SumWidths(SubSeq(fs, 1, i - 1)) + 1] :
        i \in {k \in DOMAIN fs :
                 /\ fs[k] \in TagTypes
                 /\ src[SumWidths(SubSeq(fs, 1, k - 1)) + 1] \notin ValidTags}}

\* ------------------------------------------------------------------ claims

\* C1: every Cursor::read call returns min(n, length(S) - p), n the length of
\* the destination buffer and p the cursor position at the call.
ReadReturnsMin ==
    \A i \in DOMAIN reads :
        reads[i].ret = Min(reads[i].len, Len(inner) - reads[i].pos)

\* C1 witness: a read cut short by the end of the source after a read that
\* was served in full.
ReadReturnsMinWitness ==
    \E i, j \in DOMAIN reads :
        /\ i < j
        /\ reads[i].len > 0 /\ reads[i].ret = reads[i].len
        /\ reads[i].len < Len(inner) - reads[i].pos
        /\ reads[j].ret > 0 /\ reads[j].ret < reads[j].len

\* C2: every Cursor::read call leaves the position at p + c, p the position
\* before the call and c the count returned.
ReadAdvancesByCount ==
    \A i \in DOMAIN reads : reads[i].post = reads[i].pos + reads[i].ret

\* C3: successive reads deliver consecutive, non-overlapping segments: the
\* bytes delivered so far are a prefix of the source, each read starts where
\* the one before stopped, and over [1, 2, 3] two reads into 2-byte buffers
\* and a third read return 2 with [1, 2], 1 with [3], and 0.
SuccessiveReadsConsecutive ==
    /\ IsPrefix(Delivered, inner)
    /\ \A i \in DOMAIN reads :
         i > 1 => reads[i].pos = reads[i - 1].pos + reads[i - 1].ret
    /\ (inner = <<1, 2, 3>> /\ Len(reads) = 3
          /\ reads[1].len = 2 /\ reads[2].len = 2)
       => /\ reads[1].ret = 2 /\ DeliveredBy(1) = <<1, 2>>
          /\ reads[2].ret = 1 /\ DeliveredBy(2) = <<3>>
          /\ reads[3].ret = 0

\* C4: a type of fixed-width fields that needs k bytes, decoded from a source
\* shorter than k, yields UnexpectedEnd (never Ok).
TruncationYieldsUnexpectedEnd ==
    (last.op = "decode" /\ last.U \in FixedWidthTypes
       /\ Len(inner) < TotalWidth(last.U))
    => last.res = UnexpectedEnd

\* C5: a composite decoded on a new cursor from exactly the encoding of its
\* fields, one after the other, yields the value that was encoded.
NestedDecodeRoundTrip ==
    (last.op = "decode" /\ last.first /\ last.U \in CompositeTypes
       /\ IsEncoding(last.U, inner))
    => /\ last.res.kind = "Ok"
       /\ Encode(last.U, last.res.val) = inner

\* C6: the position stays within the source: 0 <= p <= length(source).
PositionInBounds == 0 <= cursor /\ cursor <= Len(inner)

\* C6 witness: a read and a decode have both returned bytes of a source.
PositionInBoundsWitness ==
    /\ last.op = "decode" /\ last.res.kind = "Ok"
    /\ \E i \in DOMAIN reads : reads[i].ret > 0 /\ reads[i].len = reads[i].ret
    /\ Len(reads) > NumReads(last.U)

\* C7: no read or decode call leaves the position smaller than it was.
PositionMonotonic == [][cursor' >= cursor]_vars

\* C7 witness: two reads that returned bytes have been made, one after the other.
PositionMonotonicWitness ==
    /\ Len(reads) >= 2
    /\ reads[1].ret > 0 /\ reads[2].ret > 0
    /\ last.op \in {"read", "decode"}

\* C8: at position = length(source) a read returns 0 and leaves the position
\* where it is; and a cursor over a non-empty source is there once enough
\* reads with non-empty buffers were made (length(source) of them suffice,
\* each one consuming at least a byte until then).
ExhaustionIdempotent ==
    /\ \A i \in DOMAIN reads :
         reads[i].pos = Len(inner) => reads[i].ret = 0 /\ reads[i].post = reads[i].pos
    /\ (Len(inner) > 0 /\ NonEmptyReads >= Len(inner)) => cursor = Len(inner)

\* C9: Cursor::read never fails: no call has aborted, and in every call the
\* range position..end was well-formed and the copy fitted the destination.
ReadNeverFails ==
    /\ ~panicked
    /\ \A i \in DOMAIN reads :
         /\ reads[i].pos <= reads[i].end /\ reads[i].end <= Len(inner)
         /\ reads[i].ret <= reads[i].len
         /\ Len(reads[i].buf) = reads[i].len

\* C9 witness: a read cut short by the end of the source, and a read into a
\* buffer longer than the whole source.
ReadNeverFailsWitness ==
    /\ \E i \in DOMAIN reads :
         reads[i].len > Len(inner) - reads[i].pos /\ reads[i].ret > 0
    /\ \E i \in DOMAIN reads : reads[i].len > Len(inner)
    /\ last.op = "read"

\* C10: Cursor::decode<U> returns what U's decode returns on this cursor, an
\* Ok value or an error alike.
DecodeDelegates ==
    last.op = "decode"
    => last.res = Decode_decode(last.U, inner,
                     [cursor |-> last.pre, reads |-> <<>>, panicked |-> FALSE]).res

\* C10 witness: a decode that returned Deserialize after a decode that did not.
DecodeDelegatesWitness ==
    /\ last.op = "decode" /\ last.res.kind = "Deserialize"
    /\ Len(reads) > NumReads(last.U)

\* C11: a type that reads a tag, decoded on a new cursor from a source that is
\* long enough and carries an invalid tag, yields Deserialize with that tag as
\* its cause, not UnexpectedEnd; Error::unexpected_end() is UnexpectedEnd and
\* Error::deserialize(e) is Deserialize carrying e.
MalformedYieldsDeserialize ==
    /\ Error_unexpected_end.kind = "UnexpectedEnd"
    /\ \A b \in Byte :
         /\ Error_deserialize(<<b>>).kind = "Deserialize"
         /\ Error_deserialize(<<b>>).val = <<b>>
    /\ (last.op = "decode" /\ last.first
          /\ Len(inner) >= TotalWidth(last.U)
          /\ BadTags(last.U, inner) # {})
       => /\ last.res.kind = "Deserialize"
          /\ Len(last.res.val) = 1
          /\ last.res.val[1] \in BadTags(last.U, inner)

\* C12: Cursor::new yields position 0 over every source, the empty one too,
\* without failing; and the first read on the cursor, into a buffer of length
\* n, delivers the first min(n, length(S)) bytes of S.
NewStartsAtZero ==
    /\ last.op = "new" => cursor = 0 /\ ~panicked /\ reads = <<>>
    /\ reads # <<>> =>
         /\ reads[1].pos = 0
         /\ DeliveredBy(1) = SubSeq(inner, 1, Min(reads[1].len, Len(inner)))

\* C12 witness: the first call on a cursor was a read of some, not all, bytes.
NewStartsAtZeroWitness ==
    /\ last.op = "read" /\ last.first
    /\ reads[1].len > 0 /\ reads[1].len < Len(inner)

\* C13: a read that returns c from position p has put source[p .. p + c), in
\* order, into the first c bytes of the destination.
ReadCopiesFromPosition ==
    \A i \in DOMAIN reads :
        DeliveredBy(i) = SubSeq(inner, reads[i].pos + 1, reads[i].pos + reads[i].ret)

\* C13 witness: a read delivered at least two bytes that differ.
ReadCopiesFromPositionWitness ==
    \E i \in DOMAIN reads : reads[i].ret >= 2 /\ reads[i].buf[1] # reads[i].buf[2]

\* C14: a read into a zero-length buffer returns 0 and leaves the position.
ZeroLengthReadIsNoOp ==
    \A i \in DOMAIN reads :
        reads[i].len = 0 => reads[i].ret = 0 /\ reads[i].post = reads[i].pos

\* C14 witness: a zero-length read on a source with bytes left, after a read
\* that delivered bytes.
ZeroLengthReadIsNoOpWitness ==
    /\ last.op = "read" /\ Len(reads) >= 2
    /\ reads[Len(reads)].len = 0
    /\ reads[Len(reads) - 1].ret > 0
    /\ reads[Len(reads)].pos < Len(inner)

\* C15: no read or decode call changes the contents or the length of the source.
SourceUnchanged == [][inner' = inner]_vars

\* C15 witness: a decode that returned a value after a read that delivered bytes.
SourceUnchangedWitness ==
    /\ last.op = "decode" /\ ~last.first /\ last.res.kind = "Ok"
    /\ reads[1].ret > 0
    /\ Len(inner) > 0

\* C16: a read that returns c for a buffer of length n has c <= n and leaves
\* the bytes of the buffer at indices c .. n as they were before the call.
ReadLeavesTail ==
    \A i \in DOMAIN reads :
        /\ reads[i].ret <= reads[i].len
        /\ \A k \in (reads[i].ret + 1)..reads[i].len :
             reads[i].buf[k] = reads[i].pre[k]

\* C16 witness: a partial read into a buffer that held earlier contents.
ReadLeavesTailWitness ==
    \E i \in DOMAIN reads :
        /\ reads[i].ret > 0 /\ reads[i].ret < reads[i].len
        /\ reads[i].pre[reads[i].len] # 0

\* C17: two reads at equal positions of the same source, into buffers of equal
\* length, return the same count, deliver the same bytes and end at the same
\* position, whatever the buffers held and whatever calls came before.
ReadDeterministic ==
    \A i, j \in DOMAIN reads :
        (reads[i].pos = reads[j].pos /\ reads[i].len = reads[j].len)
        => /\ reads[i].ret = reads[j].ret
           /\ DeliveredBy(i) = DeliveredBy(j)
           /\ reads[i].post = reads[j].post

\* C17 witness: two reads at one position, into buffers of one length with
\* different contents, that delivered bytes.
ReadDeterministicWitness ==
    \E i, j \in DOMAIN reads :
        /\ i < j
        /\ reads[i].pos = reads[j].pos /\ reads[i].len = reads[j].len
        /\ reads[i].pre # reads[j].pre
        /\ reads[i].ret > 0

====
